---- MODULE Spec2Model ----
(***************************************************************************)
(* snapborg/snapper.py: the snapper command wrapper (run_snapper), the     *)
(* snapshot catalog (SnapperConfig.get_snapshots), the snapshot entity     *)
(* (SnapperSnapshot) and the cleanup suppression guard                     *)
(* (SnapperConfig.prevent_cleanup), over the snapshot manager's persisted  *)
(* store.                                                                  *)
(*                                                                         *)
(* Python strings that the code cuts up (the snapborg_backup userdata      *)
(* value, the repository path) are sequences of one-character strings, so  *)
(* that str.replace, str.split, str.join and str.startswith are computed   *)
(* character by character.  Strings the code only passes around (the       *)
(* cleanup algorithm) are TLA+ strings.                                    *)
(***************************************************************************)
EXTENDS Integers, Sequences, FiniteSets, TLC

VARIABLES
    snapperList,     \* the snapshot manager's store: what "snapper list" returns
    snapperVersion,  \* the version "snapper --version" reports
    repopath,        \* config.repo.repopath
    dryrun,          \* per process: the dryrun argument the program passes to every call
    version_ok,      \* per process: run_snapper.snapper_version_ok is set
    versionCmds,     \* per process: "snapper --version" commands executed
    _snapshots,      \* per process: SnapperConfig._snapshots
    pc,              \* per process: where the process is in the guard
    guarded,         \* per process: the guard's `snapshots` (indices into _snapshots)
    idx,             \* per process: position of the guard's entry / exit loop
    bodyExc,         \* per process: the body raised
    raised,          \* per process: the exception that reached the guard's caller
    glog,            \* per process: the snapshot method calls the guard has made
    lastCmd,         \* the last command the snapshot manager executed
    lastPrinted,     \* the last command a dry run printed instead of executing it
    listCmds,        \* per process: "snapper list" commands executed
    crashes,         \* processes killed inside a guard body so far
    interrupted      \* per snapshot number: cleanup value a killed guard had suppressed

vars == <<snapperList, snapperVersion, repopath, dryrun, version_ok, versionCmds,
          _snapshots, pc, guarded, idx, bodyExc, raised, glog, lastCmd, lastPrinted,
          listCmds, crashes, interrupted>>

(***************************************************************************)
(* Bounds                                                                  *)
(***************************************************************************)
MaxListCmds == 2
MaxSetCalls == 2
MaxCrashes == 1
MaxVersionCmds == 2

(***************************************************************************)
(* Python string operations                                                *)
(***************************************************************************)
EmptyStr == <<>>
TrueStr == <<"t", "r", "u", "e">>
LocalStr == <<"l", "o", "c", "a", "l">>
RemoteStr == <<"r", "e", "m", "o", "t", "e">>
ColonStr == <<":">>
ForeignStr == <<"f">>
UntrueStr == <<"u", "n", "t", "r", "u", "e">>
SshPrefix == <<"s", "s", "h", ":", "/", "/">>

\* s.startswith(prefix)
StartsWith(s, prefix) ==
    /\ Len(s) >= Len(prefix)
    /\ SubSeq(s, 1, Len(prefix)) = prefix

\* s.replace(old, new): every non-overlapping occurrence, scanning left to right
RECURSIVE StrReplace(_, _, _)
StrReplace(s, old, new) ==
    IF Len(s) < Len(old) THEN s
    ELSE IF SubSeq(s, 1, Len(old)) = old
         THEN new \o StrReplace(SubSeq(s, Len(old) + 1, Len(s)), old, new)
         ELSE <<Head(s)>> \o StrReplace(Tail(s), old, new)

\* s.split(":"): "" gives [""], "a::b" gives ["a", "", "b"]
RECURSIVE StrSplit(_)
StrSplit(s) ==
    IF \A k \in 1..Len(s) : s[k] # ":" THEN <<s>>
    ELSE LET k == CHOOSE j \in 1..Len(s) :
                      /\ s[j] = ":"
                      /\ \A h \in 1..(j - 1) : s[h] # ":"
         IN <<SubSeq(s, 1, k - 1)>> \o StrSplit(SubSeq(s, k + 1, Len(s)))

\* ":".join(parts)
RECURSIVE StrJoin(_)
StrJoin(parts) ==
    IF parts = <<>> THEN EmptyStr
    ELSE IF Len(parts) = 1 THEN parts[1]
    ELSE parts[1] \o ColonStr \o StrJoin(Tail(parts))

\* x in parts
Contains(parts, x) == \E k \in 1..Len(parts) : parts[k] = x

(***************************************************************************)
(* The snapshot manager                                                    *)
(***************************************************************************)
Procs == {"A", "B"}

CleanupAlgorithms == {"", "timeline", "number"}

\* info["userdata"]: null, or a mapping that may hold the key snapborg_backup
NullUserdata == [isNull |-> TRUE, hasKey |-> FALSE, snapborg_backup |-> EmptyStr]
Userdata(v) == [isNull |-> FALSE, hasKey |-> TRUE, snapborg_backup |-> v]

\* version.parse(a) < version.parse(b) on release triples
VersionLess(a, b) ==
    \/ a[1] < b[1]
    \/ a[1] = b[1] /\ a[2] < b[2]
    \/ a[1] = b[1] /\ a[2] = b[2] /\ a[3] < b[3]

MinVersion == <<0, 8, 6>>

\* check_snapper(): raises when the reported version is below 0.8.6
check_snapper_raises == VersionLess(snapperVersion, MinVersion)

\* One run_snapper call: the method that makes it, the Snapshot object (index into
\* _snapshots) and snapshot number it is about, and the value it passes
Call(p, m, i, n, c, t) ==
    [proc |-> p, method |-> m, obj |-> i, number |-> n, cleanup |-> c, tag |-> t]

\* A run_snapper that executes the command whether or not dryrun is set
OutcomeIgnoringDryrun(p, dry, cmdOk) ==
    IF ~version_ok[p] /\ check_snapper_raises THEN "version_error"
    ELSE IF cmdOk THEN "executed"
    ELSE "command_error"

\* How one run_snapper call ends: the version gate first, then dry-run, then the command
Outcome(p, dry, cmdOk) ==
    IF ~version_ok[p] /\ check_snapper_raises THEN "version_error"
    ELSE IF dry THEN "printed"
    ELSE IF cmdOk THEN "executed"
    ELSE "command_error"

\* run_snapper returns (rather than raises)
Returned(out) == out \in {"executed", "printed"}

HasNumber(list, n) == \E k \in 1..Len(list) : list[k].number = n

InfoOf(list, n) == list[CHOOSE k \in 1..Len(list) : list[k].number = n]

\* The persisted cleanup algorithm of snapshot n ("" when n is not listed)
PersistedCleanup(n) ==
    IF HasNumber(snapperList, n) THEN InfoOf(snapperList, n).cleanup ELSE ""

\* The persisted userdata of snapshot n
PersistedUserdata(n) ==
    IF HasNumber(snapperList, n) THEN InfoOf(snapperList, n).userdata ELSE NullUserdata

\* What the snapshot manager does with an executed command
Execute(list, call) ==
    [k \in 1..Len(list) |->
        IF list[k].number # call.number THEN list[k]
        ELSE IF call.method \in {"prevent_cleanup", "restore_cleanup_state", "modify"}
             THEN [list[k] EXCEPT !.cleanup = call.cleanup]
        ELSE IF call.method \in {"set_backed_up", "purge_userdata"}
             THEN [list[k] EXCEPT !.userdata = Userdata(call.tag)]
        ELSE list[k]]

\* The record of the last executed command: the call, the persisted cleanup
\* algorithm it overwrote and, for set_backed_up, how many times in a row the same Snapshot
\* object has now executed it
NoCmd == [proc |-> "none", method |-> "none", obj |-> 0, number |-> 0, cleanup |-> "",
          tag |-> EmptyStr, old |-> "", nth |-> 0]

SameCall(cmd, call) ==
    /\ cmd.proc = call.proc
    /\ cmd.method = call.method
    /\ cmd.obj = call.obj

Executed(call) ==
    [proc |-> call.proc, method |-> call.method, obj |-> call.obj,
     number |-> call.number, cleanup |-> call.cleanup, tag |-> call.tag,
     old |-> IF call.method \in {"prevent_cleanup", "restore_cleanup_state", "modify"}
             THEN PersistedCleanup(call.number) ELSE "",
     nth |-> IF call.method = "set_backed_up" /\ SameCall(lastCmd, call)
             THEN lastCmd.nth + 1 ELSE 1]

\* Nothing printed yet
NoCall == Call("none", "none", 0, 0, "", EmptyStr)

\* run_snapper(args, config, dryrun)
run_snapper(p, call, dry, cmdOk) ==
    LET out == Outcome(p, dry, cmdOk) IN
    /\ ~version_ok[p] => versionCmds[p] < MaxVersionCmds
    /\ versionCmds' = [versionCmds EXCEPT ![p] = IF version_ok[p] THEN @ ELSE @ + 1]
    /\ version_ok' = [version_ok EXCEPT ![p] = @ \/ out # "version_error"]
    /\ snapperList' = IF out = "executed" THEN Execute(snapperList, call) ELSE snapperList
    /\ lastCmd' = IF out = "executed" THEN Executed(call) ELSE lastCmd
    /\ lastPrinted' = IF out = "printed" THEN call ELSE lastPrinted

(***************************************************************************)
(* SnapperSnapshot                                                         *)
(***************************************************************************)
\* (info["userdata"] or dict()).get("snapborg_backup", "")
RawBackupVal(info) ==
    IF info.userdata.isNull \/ ~info.userdata.hasKey THEN EmptyStr
    ELSE info.userdata.snapborg_backup

\* .replace("true", "local")
Normalized(raw) == StrReplace(raw, TrueStr, LocalStr)

\* .replace("true", "local").split(":")
sb_backup_vals(info) == StrSplit(Normalized(RawBackupVal(info)))

\* config.repo.repopath.startswith("ssh://")
IsRemote == StartsWith(repopath, SshPrefix)

\* ("local", "remote")[self._is_remote]
DestToken(is_remote) == IF is_remote THEN RemoteStr ELSE LocalStr

\* SnapperSnapshot.__init__
SnapperSnapshot(info) ==
    [info |-> info,
     _is_remote |-> IsRemote,
     _is_backed_up |-> Contains(sb_backup_vals(info), DestToken(IsRemote)),
     _existing_backup_val |-> StrJoin(sb_backup_vals(info)),
     _cleanup |-> info.cleanup]

\* SnapperSnapshot.is_backed_up
is_backed_up(s) == s._is_backed_up

\* SnapperSnapshot.get_number
get_number(s) == s.info.number

\* The value set_backed_up passes to --userdata snapborg_backup=
new_sb_backup_val(s) ==
    IF s._existing_backup_val # EmptyStr
    THEN s._existing_backup_val \o ColonStr \o DestToken(s._is_remote)
    ELSE DestToken(s._is_remote)

\* A prevent_cleanup that passes the remembered algorithm instead of the empty one
PreventValueKept(s) == s._cleanup

\* A prevent_cleanup that sets the "number" algorithm
PreventValueNumber(s) == "number"

\* The value prevent_cleanup passes to --cleanup-algorithm
PreventValue(s) == ""

\* A restore_cleanup_state that falls back to "timeline" when it remembers no algorithm
RestoreValueDefault(s) == IF s._cleanup = "" THEN "timeline" ELSE s._cleanup

\* A restore_cleanup_state that always sets the empty algorithm
RestoreValueEmpty(s) == ""

\* The value restore_cleanup_state passes to --cleanup-algorithm
RestoreValue(s) == s._cleanup

Obj(p, i) == _snapshots[p].list[i]

Objs(p) == 1..Len(_snapshots[p].list)

\* The run_snapper call each SnapperSnapshot method makes
prevent_cleanup_call(p, i) ==
    Call(p, "prevent_cleanup", i, get_number(Obj(p, i)), PreventValue(Obj(p, i)), EmptyStr)

restore_cleanup_state_call(p, i) ==
    Call(p, "restore_cleanup_state", i, get_number(Obj(p, i)), RestoreValue(Obj(p, i)),
         EmptyStr)

set_backed_up_call(p, i) ==
    Call(p, "set_backed_up", i, get_number(Obj(p, i)), "", new_sb_backup_val(Obj(p, i)))

purge_userdata_call(p, i) ==
    Call(p, "purge_userdata", i, get_number(Obj(p, i)), "", EmptyStr)

\* A set_backed_up that also remembers the value it has just written
AfterSetBackedUpAppending(s) ==
    [s EXCEPT !._is_backed_up = TRUE, !._existing_backup_val = new_sb_backup_val(s)]

\* The Snapshot object after set_backed_up: self._is_backed_up = True
AfterSetBackedUp(s) == [s EXCEPT !._is_backed_up = TRUE]

\* The Snapshot object after purge_userdata
AfterPurge(s) == s

\* A prevent_cleanup that overwrites the remembered algorithm with the one it set
AfterPreventForgets(s) == [s EXCEPT !._cleanup = ""]

\* The Snapshot object after prevent_cleanup
AfterPrevent(s) == s

\* The Snapshot object after restore_cleanup_state
AfterRestore(s) == s

\* _snapshots once method `after` has returned on object i of p (unchanged if it raised)
Updated(p, i, out, after) ==
    IF Returned(out) THEN [_snapshots EXCEPT ![p].list[i] = after] ELSE _snapshots

(***************************************************************************)
(* SnapperConfig.get_snapshots                                             *)
(***************************************************************************)
NoSnapshots == [isNone |-> TRUE, list |-> <<>>]

\* `not self._snapshots`
NotSnapshots(p) == _snapshots[p].isNone \/ _snapshots[p].list = <<>>

\* A filter that drops no entry
KeepsLive(info) == info.number >= 0

\* info["number"] != 0
NotLive(info) == info.number # 0

\* [SnapperSnapshot(self, info) for info in ... if info["number"] != 0]
RECURSIVE Enumerate(_)
Enumerate(list) ==
    IF list = <<>> THEN <<>>
    ELSE IF NotLive(Head(list))
         THEN <<SnapperSnapshot(Head(list))>> \o Enumerate(Tail(list))
         ELSE Enumerate(Tail(list))

list_call(p) == Call(p, "get_snapshots", 0, 0, "", EmptyStr)

\* The part of get_snapshots that changes state, shared by its callers; the list
\* command is never a dry run
get_snapshots(p, cmdOk) ==
    IF NotSnapshots(p)
    THEN /\ listCmds[p] < MaxListCmds
         /\ run_snapper(p, list_call(p), FALSE, cmdOk)
         /\ IF Outcome(p, FALSE, cmdOk) = "executed"
            THEN /\ _snapshots' = [_snapshots EXCEPT
                                     ![p] = [isNone |-> FALSE, list |-> Enumerate(snapperList)]]
                 /\ listCmds' = [listCmds EXCEPT ![p] = @ + 1]
            ELSE UNCHANGED <<_snapshots, listCmds>>
    ELSE UNCHANGED <<version_ok, versionCmds, snapperList, lastCmd, lastPrinted, _snapshots,
                     listCmds>>

\* get_snapshots raises
get_snapshots_raises(p, cmdOk) == NotSnapshots(p) /\ Outcome(p, FALSE, cmdOk) # "executed"

(***************************************************************************)
(* Initial states                                                          *)
(***************************************************************************)
LiveInfo == [number |-> 0, userdata |-> NullUserdata, cleanup |-> ""]

UserdataInputs ==
    {NullUserdata,
     Userdata(TrueStr),
     Userdata(LocalStr),
     Userdata(RemoteStr),
     Userdata(ForeignStr),
     Userdata(UntrueStr),
     Userdata(RemoteStr \o ColonStr \o TrueStr),
     Userdata(ForeignStr \o ColonStr \o LocalStr)}

\* Stores with one snapshot, over every userdata input
TagLists ==
    {<<LiveInfo, [number |-> 1, userdata |-> u, cleanup |-> "timeline"]>> :
        u \in UserdataInputs}

\* Stores with two snapshots, over the cleanup algorithms
CleanupLists ==
    {<<LiveInfo, [number |-> 1, userdata |-> NullUserdata, cleanup |-> c],
       [number |-> 2, userdata |-> NullUserdata, cleanup |-> d]>> :
        c \in CleanupAlgorithms, d \in {"number", ""}}

\* Stores with one snapshot, over the cleanup algorithms
ExtLists ==
    {<<LiveInfo, [number |-> 1, userdata |-> NullUserdata, cleanup |-> c]>> :
        c \in CleanupAlgorithms}

\* Stores with nothing to back up
EmptyLists == {<<>>, <<LiveInfo>>}

ListInputs == TagLists \cup CleanupLists \cup EmptyLists \cup ExtLists

RepopathInputs == {SshPrefix \o <<"h">>, <<"/", "b">>}

VersionInputs == {<<0, 8, 5>>, <<0, 8, 6>>}

Numbers == {1, 2}

\* The processes that run in the single-instance specification
Active == {"A"}

NotInterrupted == "-"

Init ==
    /\ snapperList \in ListInputs
    /\ snapperVersion \in VersionInputs
    /\ repopath \in RepopathInputs
    /\ dryrun \in {d \in [Procs -> BOOLEAN] : \A q \in Procs \ Active : ~d[q]}
    /\ version_ok = [p \in Procs |-> FALSE]
    /\ versionCmds = [p \in Procs |-> 0]
    /\ _snapshots = [p \in Procs |-> NoSnapshots]
    /\ pc = [p \in Procs |-> "idle"]
    /\ guarded = [p \in Procs |-> <<>>]
    /\ idx = [p \in Procs |-> 0]
    /\ bodyExc = [p \in Procs |-> FALSE]
    /\ raised = [p \in Procs |-> "none"]
    /\ glog = [p \in Procs |-> <<>>]
    /\ lastCmd = NoCmd
    /\ lastPrinted = NoCall
    /\ listCmds = [p \in Procs |-> 0]
    /\ crashes = 0
    /\ interrupted = [n \in Numbers |-> NotInterrupted]

(***************************************************************************)
(* Calls made outside a guard                                              *)
(***************************************************************************)
guardVars == <<pc, guarded, idx, bodyExc, raised, glog>>

fixedVars == <<snapperVersion, repopath, dryrun, crashes, interrupted>>

\* config.get_snapshots()
GetSnapshots(p, cmdOk) ==
    /\ pc[p] = "idle"
    /\ get_snapshots(p, cmdOk)
    /\ UNCHANGED <<guardVars, fixedVars>>

\* SnapperSnapshot.set_backed_up(dryrun)
set_backed_up(p, i, cmdOk) ==
    /\ ~(SameCall(lastCmd, set_backed_up_call(p, i)) /\ lastCmd.nth >= MaxSetCalls)
    /\ run_snapper(p, set_backed_up_call(p, i), dryrun[p], cmdOk)
    /\ _snapshots' = Updated(p, i, Outcome(p, dryrun[p], cmdOk), AfterSetBackedUp(Obj(p, i)))

SetBackedUp(p, i, cmdOk) ==
    /\ pc[p] = "idle"
    /\ set_backed_up(p, i, cmdOk)
    /\ UNCHANGED <<guardVars, fixedVars, listCmds>>

\* SnapperSnapshot.purge_userdata(dryrun)
PurgeUserdata(p, i, cmdOk) ==
    /\ pc[p] = "idle"
    /\ run_snapper(p, purge_userdata_call(p, i), dryrun[p], cmdOk)
    /\ _snapshots' = Updated(p, i, Outcome(p, dryrun[p], cmdOk), AfterPurge(Obj(p, i)))
    /\ UNCHANGED <<guardVars, fixedVars, listCmds>>

\* SnapperSnapshot.prevent_cleanup(dryrun)
prevent_cleanup(p, i, cmdOk) ==
    /\ run_snapper(p, prevent_cleanup_call(p, i), dryrun[p], cmdOk)
    /\ _snapshots' = Updated(p, i, Outcome(p, dryrun[p], cmdOk), AfterPrevent(Obj(p, i)))

PreventCleanup(p, i, cmdOk) ==
    /\ pc[p] = "idle"
    /\ prevent_cleanup(p, i, cmdOk)
    /\ UNCHANGED <<guardVars, fixedVars, listCmds>>

\* SnapperSnapshot.restore_cleanup_state(dryrun)
restore_cleanup_state(p, i, cmdOk) ==
    /\ run_snapper(p, restore_cleanup_state_call(p, i), dryrun[p], cmdOk)
    /\ _snapshots' = Updated(p, i, Outcome(p, dryrun[p], cmdOk), AfterRestore(Obj(p, i)))

RestoreCleanupState(p, i, cmdOk) ==
    /\ pc[p] = "idle"
    /\ restore_cleanup_state(p, i, cmdOk)
    /\ UNCHANGED <<guardVars, fixedVars, listCmds>>

(***************************************************************************)
(* SnapperConfig.prevent_cleanup: the cleanup suppression guard            *)
(***************************************************************************)
\* The explicit `snapshots` arguments: the ordered selections of loaded Snapshot objects
Selections(p) ==
    {<<>>}
    \cup {<<i>> : i \in Objs(p)}
    \cup {s \in Objs(p) \X Objs(p) : s[1] # s[2]}

AllObjects(list) == [i \in 1..Len(list) |-> i]

\* One snapshot method call of the guard, as the guard's log keeps it
Logged(call, out) ==
    [method |-> call.method, obj |-> call.obj, number |-> call.number,
     cleanup |-> call.cleanup, outcome |-> out, old |-> PersistedCleanup(call.number)]

\* An entry loop inside the try statement: a failing prevent_cleanup starts the finally loop
EntryFailureRestores(set) == "exit"

\* Where the guard goes when a prevent_cleanup call of the entry loop raises:
\* the loop is outside the try statement, so the finally clause does not run
EntryFailure(set) == "done"

\* Where the guard goes when a restore_cleanup_state call of the finally loop raises:
\* the loop is left
ExitFailure(set, i) == "done"

\* The guard as it starts its entry loop over `set`
EnterGuard(p, set) ==
    /\ guarded' = [guarded EXCEPT ![p] = set]
    /\ pc' = [pc EXCEPT ![p] = IF set = <<>> THEN "body" ELSE "entry"]
    /\ idx' = [idx EXCEPT ![p] = 1]
    /\ raised' = [raised EXCEPT ![p] = "none"]
    /\ bodyExc' = [bodyExc EXCEPT ![p] = FALSE]
    /\ glog' = [glog EXCEPT ![p] = <<>>]

\* with config.prevent_cleanup(dryrun=dryrun): snapshots is None
GuardDefault(p, cmdOk) ==
    /\ pc[p] = "idle"
    /\ get_snapshots(p, cmdOk)
    /\ IF get_snapshots_raises(p, cmdOk)
       THEN /\ pc' = [pc EXCEPT ![p] = "done"]
            /\ raised' = [raised EXCEPT ![p] = "get_snapshots"]
            /\ UNCHANGED <<guarded, idx, bodyExc, glog>>
       ELSE EnterGuard(p, AllObjects(_snapshots'[p].list))
    /\ UNCHANGED fixedVars

\* with config.prevent_cleanup(snapshots, dryrun=dryrun)
GuardSelected(p, sel) ==
    /\ pc[p] = "idle"
    /\ EnterGuard(p, sel)
    /\ UNCHANGED <<version_ok, versionCmds, snapperList, lastCmd, lastPrinted, _snapshots,
                   listCmds, fixedVars>>

\* One iteration of the entry loop: s.prevent_cleanup(dryrun=dryrun)
EntryStep(p, cmdOk) ==
    LET i == guarded[p][idx[p]]
        out == Outcome(p, dryrun[p], cmdOk)
    IN
    /\ pc[p] = "entry"
    /\ prevent_cleanup(p, i, cmdOk)
    /\ glog' = [glog EXCEPT ![p] = Append(@, Logged(prevent_cleanup_call(p, i), out))]
    /\ IF Returned(out)
       THEN /\ pc' = [pc EXCEPT ![p] = IF idx[p] = Len(guarded[p]) THEN "body" ELSE "entry"]
            /\ idx' = [idx EXCEPT ![p] = IF idx[p] = Len(guarded[p]) THEN 1 ELSE @ + 1]
            /\ UNCHANGED raised
       ELSE /\ pc' = [pc EXCEPT ![p] = EntryFailure(guarded[p])]
            /\ idx' = [idx EXCEPT ![p] = 1]
            /\ raised' = [raised EXCEPT ![p] = "prevent_cleanup"]
    /\ UNCHANGED <<listCmds, guarded, bodyExc, fixedVars>>

\* The body ends (normally, or by raising): the finally clause starts
LeaveBody(p, exc) ==
    /\ bodyExc' = [bodyExc EXCEPT ![p] = exc]
    /\ pc' = [pc EXCEPT ![p] = IF guarded[p] = <<>> THEN "done" ELSE "exit"]
    /\ idx' = [idx EXCEPT ![p] = 1]
    /\ raised' = [raised EXCEPT ![p] = IF guarded[p] = <<>> /\ exc THEN "body" ELSE "none"]

\* The body marks a snapshot as backed up
BodySetBackedUp(p, i, cmdOk) ==
    /\ pc[p] = "body"
    /\ set_backed_up(p, i, cmdOk)
    /\ IF Returned(Outcome(p, dryrun[p], cmdOk))
       THEN UNCHANGED <<pc, idx, bodyExc, raised>>
       ELSE LeaveBody(p, TRUE)
    /\ UNCHANGED <<listCmds, guarded, glog, fixedVars>>

\* The body returns
BodyFinish(p) ==
    /\ pc[p] = "body"
    /\ LeaveBody(p, FALSE)
    /\ UNCHANGED <<snapperList, version_ok, versionCmds, lastCmd, lastPrinted, _snapshots,
                   listCmds, guarded, glog, fixedVars>>

\* The body raises (the archive step fails)
BodyRaise(p) ==
    /\ pc[p] = "body"
    /\ LeaveBody(p, TRUE)
    /\ UNCHANGED <<snapperList, version_ok, versionCmds, lastCmd, lastPrinted, _snapshots,
                   listCmds, guarded, glog, fixedVars>>

\* One iteration of the finally loop: s.restore_cleanup_state(dryrun=dryrun)
ExitStep(p, cmdOk) ==
    LET i == guarded[p][idx[p]]
        out == Outcome(p, dryrun[p], cmdOk)
    IN
    /\ pc[p] = "exit"
    /\ restore_cleanup_state(p, i, cmdOk)
    /\ glog' = [glog EXCEPT ![p] = Append(@, Logged(restore_cleanup_state_call(p, i), out))]
    /\ IF Returned(out)
       THEN IF idx[p] = Len(guarded[p])
            THEN /\ pc' = [pc EXCEPT ![p] = "done"]
                 /\ raised' = [raised EXCEPT ![p] = IF bodyExc[p] THEN "body" ELSE "none"]
                 /\ UNCHANGED idx
            ELSE /\ idx' = [idx EXCEPT ![p] = @ + 1]
                 /\ UNCHANGED <<pc, raised>>
       ELSE /\ pc' = [pc EXCEPT ![p] = ExitFailure(guarded[p], idx[p])]
            /\ raised' = [raised EXCEPT ![p] = "restore_cleanup_state"]
            /\ UNCHANGED idx
    /\ UNCHANGED <<listCmds, guarded, bodyExc, fixedVars>>

\* The process's memory of the guard, once it is over
ForgetGuard(p) ==
    /\ pc' = [pc EXCEPT ![p] = "idle"]
    /\ guarded' = [guarded EXCEPT ![p] = <<>>]
    /\ idx' = [idx EXCEPT ![p] = 0]
    /\ bodyExc' = [bodyExc EXCEPT ![p] = FALSE]
    /\ raised' = [raised EXCEPT ![p] = "none"]
    /\ glog' = [glog EXCEPT ![p] = <<>>]

\* The with statement is over: control is back in the caller
Return(p) ==
    /\ pc[p] = "done"
    /\ ForgetGuard(p)
    /\ UNCHANGED <<snapperList, version_ok, versionCmds, lastCmd, lastPrinted, _snapshots,
                   listCmds, fixedVars>>

\* The cleanup value the guard's first executed prevent_cleanup overwrote for snapshot n
Suppressed(log, n) ==
    LET hits == {k \in 1..Len(log) : /\ log[k].method = "prevent_cleanup"
                                     /\ log[k].number = n
                                     /\ log[k].outcome = "executed"}
    IN IF hits = {} THEN NotInterrupted
       ELSE log[CHOOSE k \in hits : \A h \in hits : k <= h].old

\* The process is killed inside the body: the finally clause never runs, and the
\* next process starts with nothing in memory
Crash(p) ==
    /\ pc[p] = "body"
    /\ crashes < MaxCrashes
    /\ crashes' = crashes + 1
    /\ interrupted' = [n \in Numbers |->
                         IF Suppressed(glog[p], n) # NotInterrupted
                         THEN Suppressed(glog[p], n) ELSE interrupted[n]]
    /\ version_ok' = [version_ok EXCEPT ![p] = FALSE]
    /\ versionCmds' = [versionCmds EXCEPT ![p] = 0]
    /\ _snapshots' = [_snapshots EXCEPT ![p] = NoSnapshots]
    /\ listCmds' = [listCmds EXCEPT ![p] = 0]
    /\ ForgetGuard(p)
    /\ lastCmd' = NoCmd
    /\ lastPrinted' = NoCall
    /\ UNCHANGED <<snapperList, snapperVersion, repopath, dryrun>>

(***************************************************************************)
(* Specifications                                                          *)
(***************************************************************************)
Step(p) ==
    \/ \E cmdOk \in BOOLEAN : GetSnapshots(p, cmdOk)
    \/ \E i \in Objs(p), cmdOk \in BOOLEAN : SetBackedUp(p, i, cmdOk)
    \/ \E i \in Objs(p), cmdOk \in BOOLEAN : PurgeUserdata(p, i, cmdOk)
    \/ \E i \in Objs(p), cmdOk \in BOOLEAN : PreventCleanup(p, i, cmdOk)
    \/ \E i \in Objs(p), cmdOk \in BOOLEAN : RestoreCleanupState(p, i, cmdOk)
    \/ \E cmdOk \in BOOLEAN : GuardDefault(p, cmdOk)
    \/ \E sel \in Selections(p) : GuardSelected(p, sel)
    \/ \E cmdOk \in BOOLEAN : EntryStep(p, cmdOk)
    \/ \E i \in Objs(p), cmdOk \in BOOLEAN : BodySetBackedUp(p, i, cmdOk)
    \/ BodyFinish(p)
    \/ BodyRaise(p)
    \/ \E cmdOk \in BOOLEAN : ExitStep(p, cmdOk)
    \/ Return(p)

\* One instance of the program, the only writer of the store
Next == \E p \in Active : Step(p)

Spec == Init /\ [][Next]_vars

\* A backup run: load the catalog, guard, mark inside the body
BackupStep(p) ==
    \/ \E cmdOk \in BOOLEAN : GetSnapshots(p, cmdOk)
    \/ \E cmdOk \in BOOLEAN : GuardDefault(p, cmdOk)
    \/ \E sel \in Selections(p) : GuardSelected(p, sel)
    \/ \E cmdOk \in BOOLEAN : EntryStep(p, cmdOk)
    \/ \E i \in Objs(p), cmdOk \in BOOLEAN : BodySetBackedUp(p, i, cmdOk)
    \/ BodyFinish(p)
    \/ BodyRaise(p)
    \/ \E cmdOk \in BOOLEAN : ExitStep(p, cmdOk)
    \/ Return(p)
    \/ Crash(p)

\* Backup runs of one instance at a time, each of which may be killed inside a
\* guard body and followed by a new process
NextCrash == \E p \in Active : BackupStep(p)

SpecCrash == Init /\ [][NextCrash]_vars

\* Another user of the snapshot manager sets the cleanup algorithm of snapshot n
ExternalModify(n, c) ==
    /\ HasNumber(snapperList, n)
    /\ c # PersistedCleanup(n)
    /\ snapperList' = [k \in 1..Len(snapperList) |->
                         IF snapperList[k].number = n
                         THEN [snapperList[k] EXCEPT !.cleanup = c]
                         ELSE snapperList[k]]
    /\ lastCmd' = [NoCmd EXCEPT !.proc = "external", !.method = "modify",
                                !.number = n, !.cleanup = c,
                                !.old = PersistedCleanup(n), !.nth = 1]
    /\ UNCHANGED <<version_ok, versionCmds, lastPrinted, _snapshots, listCmds, guardVars,
                   fixedVars>>

\* One instance of the program beside other writers of the store
NextExt ==
    \/ \E p \in Active : Step(p)
    \/ \E n \in Numbers, c \in CleanupAlgorithms : ExternalModify(n, c)

InitExt ==
    /\ Init
    /\ snapperList \in ExtLists

SpecExt == InitExt /\ [][NextExt]_vars

\* The store two instances share: one snapshot, with the "timeline" algorithm
RaceList == <<LiveInfo, [number |-> 1, userdata |-> NullUserdata, cleanup |-> "timeline"]>>

\* Load, then guard: with config.prevent_cleanup(dryrun=dryrun)
RaceStep(p) ==
    \/ \E cmdOk \in BOOLEAN : GuardDefault(p, cmdOk)
    \/ \E cmdOk \in BOOLEAN : EntryStep(p, cmdOk)
    \/ BodyFinish(p)
    \/ BodyRaise(p)
    \/ \E cmdOk \in BOOLEAN : ExitStep(p, cmdOk)
    \/ Return(p)

\* Two instances of the program on the same configuration, with no coordination
NextRace == \E p \in Procs : RaceStep(p)

InitRace ==
    /\ Init
    /\ snapperList = RaceList

SpecRace == InitRace /\ [][NextRace]_vars

\* The commands a caller hands to run_snapper itself: modify --cleanup-algorithm c n
ModifyCalls(p) ==
    {Call(p, "modify", 0, a[1], a[2], EmptyStr) : a \in Numbers \X CleanupAlgorithms}

\* run_snapper(args, config, dryrun=dryrun) called directly
RunSnapper(p, call, cmdOk) ==
    /\ pc[p] = "idle"
    /\ run_snapper(p, call, dryrun[p], cmdOk)
    /\ UNCHANGED <<_snapshots, listCmds, guardVars, fixedVars>>

\* A process that only uses the command wrapper, with its dryrun flag in every call
NextExec ==
    \E p \in Active : \E call \in ModifyCalls(p), cmdOk \in BOOLEAN : RunSnapper(p, call, cmdOk)

SpecExec == Init /\ [][NextExec]_vars

(***************************************************************************)
(* Properties                                                              *)
(***************************************************************************)
IsPrevent(e) == e.method = "prevent_cleanup"

IsRestore(e) == e.method = "restore_cleanup_state"

\* The guard's prevent_cleanup and restore_cleanup_state calls, in the order made
Prevents(p) == SelectSeq(glog[p], IsPrevent)

Restores(p) == SelectSeq(glog[p], IsRestore)

GuardedObj(p, k) == Obj(p, guarded[p][k])

\* restore_cleanup_state has been called on every Snapshot object of the guarded set
EveryGuardedRestoreCalled(p) ==
    \A k \in 1..Len(guarded[p]) :
        \E j \in 1..Len(glog[p]) : IsRestore(glog[p][j]) /\ glog[p][j].obj = guarded[p][k]

\* The guard's entry loop went through
EntrySucceeded(p) == raised[p] \notin {"get_snapshots", "prevent_cleanup"}

\* C1: when a guard whose entry loop went through is over (the body returned or
\* raised), restore_cleanup_state has been called once for every guarded snapshot, in
\* the order of the prevent_cleanup calls, each with the snapshot's original cleanup
\* algorithm; so the body's exception reaches the caller after all of them.
C1_RestoredInOrder ==
    \A p \in Procs :
        (pc[p] = "done" /\ EntrySucceeded(p)) =>
            /\ Len(Prevents(p)) = Len(guarded[p])
            /\ Len(Restores(p)) = Len(guarded[p])
            /\ \A k \in 1..Len(guarded[p]) :
                  /\ Prevents(p)[k].obj = guarded[p][k]
                  /\ Restores(p)[k].obj = guarded[p][k]
                  /\ Restores(p)[k].cleanup = GuardedObj(p, k).info.cleanup

\* C2: when a prevent_cleanup call of the entry loop has raised and the failure has
\* reached the caller, restore_cleanup_state has been called for every snapshot of
\* the guarded set.
C2_RestoredAfterEntryFailure ==
    \A p \in Procs :
        (pc[p] = "done" /\ raised[p] = "prevent_cleanup") => EveryGuardedRestoreCalled(p)

\* C3: when a restore_cleanup_state call of the exit phase has raised and that error
\* has reached the caller, restore_cleanup_state has still been attempted for every
\* snapshot of the guarded set.
C3_AllRestoresAttempted ==
    \A p \in Procs :
        (pc[p] = "done" /\ raised[p] = "restore_cleanup_state") =>
            EveryGuardedRestoreCalled(p)

\* C4: while an instance running without dry-run is inside the guard's body, the
\* persisted cleanup algorithm of every guarded snapshot is the empty string.
C4_SuppressedInBody ==
    \A p \in Procs :
        (pc[p] = "body" /\ ~dryrun[p]) =>
            \A k \in 1..Len(guarded[p]) :
                PersistedCleanup(get_number(GuardedObj(p, k))) = ""

\* C4's case: inside the body of a guard over two snapshots, one of which had a
\* cleanup algorithm, after the body has marked a snapshot
C4_Witness ==
    \E p \in Procs :
        /\ pc[p] = "body"
        /\ ~dryrun[p]
        /\ Len(guarded[p]) = 2
        /\ \E k \in 1..2 : GuardedObj(p, k).info.cleanup # ""
        /\ lastCmd.method = "set_backed_up"

\* C5: no Snapshot object's remembered cleanup algorithm ever differs from the one
\* listed when it was constructed, and right after an executed restore_cleanup_state
\* the persisted algorithm is that one, whatever the store held before.
C5_RestoresCaptured ==
    /\ \A p \in Procs : \A i \in Objs(p) : Obj(p, i)._cleanup = Obj(p, i).info.cleanup
    /\ lastCmd.method = "restore_cleanup_state" =>
          PersistedCleanup(lastCmd.number) = Obj(lastCmd.proc, lastCmd.obj).info.cleanup

\* C5's case: a restore that overwrote an algorithm set by another writer after the
\* Snapshot object was constructed
C5_Witness ==
    /\ lastCmd.method = "restore_cleanup_state"
    /\ lastCmd.old \notin {"", Obj(lastCmd.proc, lastCmd.obj).info.cleanup}
    /\ PersistedCleanup(lastCmd.number) = Obj(lastCmd.proc, lastCmd.obj).info.cleanup

\* A guard of a process started after a kill has completed without an error
GuardCompleted(p) == pc[p] = "done" /\ raised[p] = "none" /\ guarded[p] # <<>>

\* The numbers of the guarded snapshots that a killed guard had suppressed
Overlap(p) ==
    {n \in Numbers : /\ interrupted[n] # NotInterrupted
                     /\ \E k \in 1..Len(guarded[p]) : get_number(GuardedObj(p, k)) = n}

\* C6 as stated: once a later process's guard over a snapshot that a killed guard had
\* suppressed has completed, the snapshot's persisted cleanup algorithm is the one
\* from before the killed guard suppressed it.
C6_OriginalRecovered ==
    \A p \in Procs :
        GuardCompleted(p) => \A n \in Overlap(p) : PersistedCleanup(n) = interrupted[n]

\* C6 as amended: once a later process's guard over a snapshot that a killed guard
\* had suppressed has completed, the snapshot's persisted cleanup algorithm is the
\* one the later process listed, the empty string the killed guard left behind.
C6_SuppressedValueKept ==
    \A p \in Procs :
        GuardCompleted(p) =>
            \A n \in Overlap(p) :
                /\ PersistedCleanup(n) = ""
                /\ \A k \in 1..Len(guarded[p]) :
                      get_number(GuardedObj(p, k)) = n => GuardedObj(p, k).info.cleanup = ""

\* C6's case: the later guard has executed its restore for a snapshot whose
\* "timeline" algorithm the killed guard had suppressed
C6_Witness ==
    \E p \in Procs :
        /\ GuardCompleted(p)
        /\ ~dryrun[p]
        /\ \E n \in Overlap(p) : /\ interrupted[n] = "timeline"
                                 /\ lastCmd.method = "restore_cleanup_state"
                                 /\ lastCmd.number = n

\* C7: a Configuration object has executed the list command at most once.
C7_ListedOnce == \A p \in Procs : listCmds[p] <= 1

\* The last executed command is set_backed_up number `nth` in a row of a Snapshot
\* object constructed from a snapshot with no tag, for a local destination
MarkedUntagged(nth) ==
    /\ lastCmd.method = "set_backed_up"
    /\ lastCmd.nth = nth
    /\ RawBackupVal(Obj(lastCmd.proc, lastCmd.obj).info) = EmptyStr
    /\ ~Obj(lastCmd.proc, lastCmd.obj)._is_remote

CapturedPlusToken(s) ==
    IF Normalized(RawBackupVal(s.info)) = EmptyStr THEN DestToken(IsRemote)
    ELSE Normalized(RawBackupVal(s.info)) \o ColonStr \o DestToken(IsRemote)

C9_PurgedNotBackedUp ==
    lastCmd.method = "purge_userdata" => ~is_backed_up(Obj(lastCmd.proc, lastCmd.obj))

\* The normalization C10 states: only a value of exactly "true" becomes "local"
ExactLegacy(raw) == IF raw = TrueStr THEN LocalStr ELSE raw

\* C10: a freshly enumerated Snapshot object is backed up iff its destination token
\* is among the colon-separated tokens of the stored tag, where only a stored value
\* of exactly "true" is read as "local".
C10_ExactTrueOnly ==
    (lastCmd.method = "get_snapshots" /\ ~dryrun[lastCmd.proc]) =>
        \A i \in Objs(lastCmd.proc) :
            is_backed_up(Obj(lastCmd.proc, i)) <=>
                Contains(StrSplit(ExactLegacy(RawBackupVal(Obj(lastCmd.proc, i).info))),
                         DestToken(IsRemote))

\* The stored snapborg_backup string of snapshot n
StoredTag(n) == RawBackupVal([userdata |-> PersistedUserdata(n)])

\* The tokens of a tag that are unrelated to the backup scheme
ForeignTokens(raw) ==
    {StrSplit(raw)[k] : k \in 1..Len(StrSplit(raw))} \ {EmptyStr, LocalStr, RemoteStr, TrueStr}

\* C11: every foreign token of the tag stored before an executed set_backed_up is a
\* token of the tag stored after it.
C11_ForeignTokensKept ==
    [][\A n \in Numbers :
          (lastCmd' # lastCmd /\ lastCmd'.method = "set_backed_up" /\ lastCmd'.number = n) =>
              \A t \in ForeignTokens(StoredTag(n)) : Contains(StrSplit(StoredTag(n)'), t)]_vars

\* The tag C12 states for the first set_backed_up: the existing string (a stored value
\* of exactly "true" read as "local") joined with the destination token
ExistingPlusToken(s) ==
    IF ExactLegacy(RawBackupVal(s.info)) = EmptyStr THEN DestToken(IsRemote)
    ELSE ExactLegacy(RawBackupVal(s.info)) \o ColonStr \o DestToken(IsRemote)

\* C12: the first executed set_backed_up of a Snapshot object persists the snapshot's
\* existing tag string joined by ":" with the destination token, or the token alone
\* when that string is empty, and the object is then backed up.
C12_FirstMarkJoins ==
    (lastCmd.method = "set_backed_up" /\ lastCmd.nth = 1) =>
        /\ PersistedUserdata(lastCmd.number) =
               Userdata(ExistingPlusToken(Obj(lastCmd.proc, lastCmd.obj)))
        /\ is_backed_up(Obj(lastCmd.proc, lastCmd.obj))

\* C13: a process that makes every run_snapper call with dryrun set has executed no
\* external command, the version command included.
C13_DryRunNoCommand ==
    \A p \in Procs : dryrun[p] => (versionCmds[p] = 0 /\ lastCmd.proc # p)

\* C14: a process has executed a command only with the version check passed, and has
\* executed the version command at most once.
C14_GateOnce ==
    \A p \in Procs :
        /\ lastCmd.proc = p => version_ok[p]
        /\ versionCmds[p] <= 1

\* A method of process p that passes p's dryrun flag to run_snapper takes the step
MutatingMethod(p) ==
    \E cmdOk \in BOOLEAN :
        \/ \E i \in Objs(p) : \/ SetBackedUp(p, i, cmdOk)
                               \/ BodySetBackedUp(p, i, cmdOk)
                               \/ PurgeUserdata(p, i, cmdOk)
                               \/ PreventCleanup(p, i, cmdOk)
                               \/ RestoreCleanupState(p, i, cmdOk)
        \/ EntryStep(p, cmdOk)
        \/ ExitStep(p, cmdOk)

\* C15: with dryrun set, no set_backed_up, purge_userdata, prevent_cleanup,
\* restore_cleanup_state or guard entry / exit step changes what the snapshot manager
\* has stored, and an object whose set_backed_up was printed is backed up.
C15_DryRunPersistsNothing ==
    /\ [](lastPrinted.method = "set_backed_up" =>
             is_backed_up(Obj(lastPrinted.proc, lastPrinted.obj)))
    /\ [][\A p \in Procs :
             (dryrun[p] /\ MutatingMethod(p)) => snapperList' = snapperList]_vars

\* C15's case: a dry-run guard over a snapshot with a cleanup algorithm is over, its
\* prevent_cleanup and restore_cleanup_state were printed, the body marked a snapshot
\* that was not backed up, and the store still holds what was listed
C15_Witness ==
    \E p \in Procs :
        /\ dryrun[p]
        /\ pc[p] = "done"
        /\ Len(Prevents(p)) > 0
        /\ Len(Restores(p)) > 0
        /\ \A k \in 1..Len(glog[p]) : glog[p][k].outcome = "printed"
        /\ lastPrinted.method = "restore_cleanup_state"
        /\ \E i \in Objs(p) :
              /\ is_backed_up(Obj(p, i))
              /\ ~Contains(sb_backup_vals(Obj(p, i).info), DestToken(IsRemote))
              /\ Obj(p, i).info.cleanup # ""
        /\ \A i \in Objs(p) : InfoOf(snapperList, get_number(Obj(p, i))) = Obj(p, i).info

\* The listed entries of the Snapshot objects of p, in order
ListedInfos(p) == [i \in Objs(p) |-> Obj(p, i).info]

Numbered(info) == info.number # 0

\* C16: no Snapshot object has number 0, and right after an executed list command the
\* Snapshot objects are the listed entries other than number 0, one each, in the
\* listed order.
C16_EnumeratesAllButLive ==
    /\ \A p \in Procs : \A i \in Objs(p) : get_number(Obj(p, i)) # 0
    /\ lastCmd.method = "get_snapshots" =>
          ListedInfos(lastCmd.proc) = SelectSeq(snapperList, Numbered)

\* C16's case: a list with the live entry and two snapshots has been enumerated
C16_Witness ==
    /\ lastCmd.method = "get_snapshots"
    /\ HasNumber(snapperList, 0)
    /\ Len(snapperList) = 3
    /\ Len(_snapshots[lastCmd.proc].list) = 2

\* C17: once a prevent_cleanup call of the entry loop has raised, the guard is over:
\* the calls it made are the prevent_cleanup calls up to the failing one, in the order
\* of the guarded set, nothing of the body or the exit phase has run, and the
\* snapshots before the failing one have an empty persisted cleanup algorithm.
C17_EntryFailurePropagates ==
    \A p \in Procs :
        raised[p] = "prevent_cleanup" =>
            /\ pc[p] = "done"
            /\ ~bodyExc[p]
            /\ glog[p] # <<>>
            /\ Len(glog[p]) <= Len(guarded[p])
            /\ ~Returned(glog[p][Len(glog[p])].outcome)
            /\ \A k \in 1..Len(glog[p]) :
                  /\ IsPrevent(glog[p][k])
                  /\ glog[p][k].obj = guarded[p][k]
            /\ \A k \in 1..(Len(glog[p]) - 1) :
                  /\ glog[p][k].outcome = "executed"
                  /\ PersistedCleanup(glog[p][k].number) = ""
            /\ Len(glog[p]) > 1 =>
                  /\ lastCmd.method = "prevent_cleanup"
                  /\ lastCmd.number = glog[p][Len(glog[p]) - 1].number

\* C17's case: the second prevent_cleanup of a guard over two snapshots has failed,
\* after the first one suppressed a cleanup algorithm
C17_Witness ==
    \E p \in Procs :
        /\ raised[p] = "prevent_cleanup"
        /\ Len(guarded[p]) = 2
        /\ Len(glog[p]) = 2
        /\ glog[p][1].old # ""
        /\ PersistedCleanup(glog[p][1].number) = ""

\* Both instances run without dry-run
BothReal == \A p \in Procs : ~dryrun[p]

\* The guards of both instances are over, with no error from the guard itself
BothExited ==
    \A p \in Procs : pc[p] = "done" /\ raised[p] \in {"none", "body"} /\ guarded[p] # <<>>

\* C18: once the guards of two instances over the same snapshot have both exited,
\* the persisted cleanup algorithm is the one the last executed restore_cleanup_state
\* wrote, which is the one the instance that ran it had listed.
C18_LastRestoreWins ==
    (BothReal /\ BothExited) =>
        /\ lastCmd.method = "restore_cleanup_state"
        /\ PersistedCleanup(lastCmd.number) = lastCmd.cleanup
        /\ lastCmd.cleanup = Obj(lastCmd.proc, lastCmd.obj).info.cleanup

\* C18's case: both guards have exited and the persisted algorithm is not the one
\* from before either instance started, which the instance that restored first had
\* listed and restored
C18_Witness ==
    /\ BothReal
    /\ BothExited
    /\ PersistedCleanup(1) # InfoOf(RaceList, 1).cleanup
    /\ \E p \in Procs :
          /\ lastCmd.proc # p
          /\ \E k \in 1..Len(Restores(p)) :
                /\ Restores(p)[k].outcome = "executed"
                /\ Restores(p)[k].cleanup = InfoOf(RaceList, 1).cleanup

\* An instance running without dry-run is inside the body of a guard over snapshots
InBody(p) == pc[p] = "body" /\ guarded[p] # <<>>

\* C19 as stated: with two instances, while either is inside its guard body the
\* persisted cleanup algorithm of each snapshot it guards is the empty string.
C19_SuppressedInEitherBody ==
    \A p \in Procs :
        (BothReal /\ InBody(p)) =>
            \A k \in 1..Len(guarded[p]) :
                PersistedCleanup(get_number(GuardedObj(p, k))) = ""

\* C19 as amended: with two instances, while one is inside its guard body the
\* persisted cleanup algorithm of a snapshot it guards is the empty string unless the
\* last executed command is the other instance's restore_cleanup_state of that
\* snapshot, which wrote the algorithm persisted now.
C19_SuppressedUntilOtherRestores ==
    \A p \in Procs :
        (BothReal /\ InBody(p)) =>
            \A k \in 1..Len(guarded[p]) :
                \/ PersistedCleanup(get_number(GuardedObj(p, k))) = ""
                \/ /\ lastCmd.method = "restore_cleanup_state"
                   /\ lastCmd.proc # p
                   /\ lastCmd.number = get_number(GuardedObj(p, k))
                   /\ PersistedCleanup(lastCmd.number) = lastCmd.cleanup

\* C19's case: one instance is inside its body while the other's exit phase has
\* put the "timeline" algorithm back
C19_Witness ==
    \E p \in Procs :
        /\ BothReal
        /\ InBody(p)
        /\ PersistedCleanup(get_number(GuardedObj(p, 1))) = "timeline"
        /\ lastCmd.method = "restore_cleanup_state"
        /\ lastCmd.proc # p

\* C20: a set_backed_up executed right after a purge_userdata of the same Snapshot
\* object persists the destination token alone.
C20_PurgeForgets ==
    [][(/\ lastCmd.method = "purge_userdata"
        /\ lastCmd'.method = "set_backed_up"
        /\ lastCmd'.proc = lastCmd.proc
        /\ lastCmd'.obj = lastCmd.obj) =>
            StoredTag(lastCmd.number)' = DestToken(IsRemote)]_vars

====
